---- MODULE Spec2Model ----
(***************************************************************************)
(* Model of cache.py: a git-style loose object store.  Worker threads call *)
(* write_object, read_object and write_tree against one repository.  Every *)
(* access to the shared filesystem or to the global byte counter is one    *)
(* step, so that interleavings of concurrent calls are explored.           *)
(*                                                                         *)
(* Bytes are integers (ASCII codes).  SHA-1 is idealised as collision free:*)
(* a digest is determined by, and determines, the bytes hashed.  zlib is   *)
(* modelled as a framed stream: a two-symbol magic, one symbol per literal *)
(* byte, an end-of-block symbol and an Adler checksum; a streaming         *)
(* decompressor emits the literals it has seen and, like zlib's            *)
(* decompressobj, raises nothing when its input merely stops early.        *)
(***************************************************************************)
EXTENDS Integers, Sequences, FiniteSets, TLC

\* ------------------------------------------------------------------ bounds
MaxOps == 2          \* calls started in one behaviour
block_size == 8      \* chunk size of every read loop (4096 in the source)

Procs == {"t1", "t2"}

NUL == 0
SP == 32
PayloadByte == 97

\* ------------------------------------------------------------------ helpers
Min(a, b) == IF a < b THEN a ELSE b

RECURSIVE Sum(_)
Sum(s) == IF s = <<>> THEN 0 ELSE Head(s) + Sum(Tail(s))

RECURSIVE Rep(_, _)
Rep(b, n) == IF n = 0 THEN <<>> ELSE <<b>> \o Rep(b, n - 1)

Drop(s, n) == SubSeq(s, n + 1, Len(s))
Take(s, n) == SubSeq(s, 1, Min(n, Len(s)))

\* str(n): decimal digits of a non-negative integer, as ASCII bytes
RECURSIVE str(_)
str(n) == IF n < 10 THEN <<48 + n>> ELSE str(n \div 10) \o <<48 + (n % 10)>>

\* str.encode() of the object type names the model uses
Encode(objtype) ==
    CASE objtype = "blob"   -> <<98, 108, 111, 98>>
      [] objtype = "tree"   -> <<116, 114, 101, 101>>
      [] objtype = "commit" -> <<99, 111, 109, 109, 105, 116>>
      [] objtype = "tag"    -> <<116, 97, 103>>

Decode(bytes) ==
    IF \E t \in {"blob", "tree", "commit", "tag"} : Encode(t) = bytes
    THEN CHOOSE t \in {"blob", "tree", "commit", "tag"} : Encode(t) = bytes
    ELSE "?"

\* ------------------------------------------------------------------ streams
\* io.BytesIO / an open file: the bytes and the current position
Stream(bytes, pos) == [bytes |-> bytes, pos |-> pos]

\* stream.read(n)
ReadChunk(stream, n) == SubSeq(stream.bytes, stream.pos + 1,
                               Min(stream.pos + n, Len(stream.bytes)))
Advance(stream, n) == [stream EXCEPT !.pos = Min(stream.pos + n, Len(stream.bytes))]
Rest(stream) == Drop(stream.bytes, stream.pos)
AtEnd(stream) == [stream EXCEPT !.pos = Len(stream.bytes)]

\* files of the caller that a path argument can name
UserFiles == [x |-> <<PayloadByte>>, y |-> <<PayloadByte>>]

\* ------------------------------------------------------------------ zlib
ZMagic == <<120, 156>>
EOB == 257
AdlerMod == 65521
Lit(b) == b + 1

RECURSIVE LitAll(_)
LitAll(s) == IF s = <<>> THEN <<>> ELSE <<Lit(Head(s))>> \o LitAll(Tail(s))

compressobj == [started |-> FALSE, adler |-> 1]

zcompress(z, chunk) ==
    [out |-> (IF z.started THEN <<>> ELSE ZMagic) \o LitAll(chunk),
     z   |-> [started |-> TRUE, adler |-> (z.adler + Sum(chunk)) % AdlerMod]]

zflush(z) == (IF z.started THEN <<>> ELSE ZMagic) \o <<EOB, z.adler>>

decompressobj == [phase |-> "magic", n |-> 0, adler |-> 1]

\* one compressed symbol through the decompressor: new state and output
zstep(d, s) ==
    CASE d.phase = "magic" ->
            IF s = ZMagic[d.n + 1]
            THEN [d |-> [d EXCEPT !.n = d.n + 1,
                                  !.phase = IF d.n + 1 = Len(ZMagic) THEN "body" ELSE "magic"],
                  out |-> <<>>]
            ELSE [d |-> [d EXCEPT !.phase = "error"], out |-> <<>>]
      [] d.phase = "body" ->
            IF s = EOB THEN [d |-> [d EXCEPT !.phase = "check"], out |-> <<>>]
            ELSE IF s >= 1 /\ s <= 256
            THEN [d |-> [d EXCEPT !.adler = (d.adler + s - 1) % AdlerMod], out |-> <<s - 1>>]
            ELSE [d |-> [d EXCEPT !.phase = "error"], out |-> <<>>]
      [] d.phase = "check" ->
            [d |-> [d EXCEPT !.phase = IF s = d.adler THEN "eof" ELSE "error"], out |-> <<>>]
      [] OTHER -> [d |-> d, out |-> <<>>]

RECURSIVE zdecompress(_, _)
zdecompress(d, chunk) ==
    IF chunk = <<>> THEN [d |-> d, out |-> <<>>]
    ELSE LET one == zstep(d, Head(chunk))
             more == zdecompress(one.d, Tail(chunk))
         IN [d |-> more.d, out |-> one.out \o more.out]

\* ------------------------------------------------------------------ pure code
\* line 100
OBJECT_TYPES_loose == {"blob", "tree", "commit", "tag"}
OBJECT_TYPES == {"blob", "tree", "commit"}

object_header(objtype, length) == Encode(objtype) \o <<SP>> \o str(length) \o <<NUL>>

stream_length(stream) == Len(stream.bytes) - stream.pos

\* hexdigest of the bytes the streams still hold; sha[:2] is the shard
sha1(bytes) == [shard |-> Sum(bytes) % 2, rest |-> bytes]
compute_sha1_hash(header, stream) == sha1(Rest(header) \o Rest(stream))

open_stream(data) ==
    IF data.isstream THEN [stream |-> Stream(data.bytes, data.pos), close |-> FALSE]
    ELSE [stream |-> Stream(UserFiles[data.path], 0), close |-> TRUE]

\* the whole compressed image of a byte string, as write_compressed emits it
RECURSIVE CompressFrom(_, _)
CompressFrom(z, bytes) ==
    IF bytes = <<>> THEN zflush(z)
    ELSE LET r == zcompress(z, Take(bytes, block_size))
         IN r.out \o CompressFrom(r.z, Drop(bytes, Min(block_size, Len(bytes))))
Compressed(bytes) == CompressFrom(compressobj, bytes)


\* ------------------------------------------------------------------ filesystem
\* the existence check gone wrong: the path is never found
path_exists_never(fs, sha) == FALSE

\* os.path.join(repo, 'objects', sha[:2], sha[2:]): one path per digest
path_exists(fs, sha) == sha \in DOMAIN fs

\* write(2) of bytes at a file offset; a write past the end leaves a zero-filled hole
WriteAt(content, off, bytes) ==
    LET padded == IF off > Len(content) THEN content \o Rep(0, off - Len(content)) ELSE content
    IN Take(padded, off) \o bytes \o Drop(padded, Min(off + Len(bytes), Len(padded)))

\* open(path, 'wb') and fout.write put content at one path and touch no other
SetFile_shard(fs, sha, content) ==
    [h \in DOMAIN fs \cup {sha} |-> IF h.shard = sha.shard THEN content ELSE fs[h]]
SetFile(fs, sha, content) ==
    [h \in DOMAIN fs \cup {sha} |-> IF h = sha THEN content ELSE fs[h]]

\* ------------------------------------------------------------------ header parsing
Whitespace == {9, 10, 11, 12, 13, 28, 29, 30, 31, 32}
Digits == 48 .. 57

\* str.split(): the maximal runs of non-whitespace
RECURSIVE split(_, _)
split(bytes, cur) ==
    IF bytes = <<>> THEN (IF cur = <<>> THEN <<>> ELSE <<cur>>)
    ELSE IF Head(bytes) \in Whitespace
         THEN (IF cur = <<>> THEN <<>> ELSE <<cur>>) \o split(Tail(bytes), <<>>)
         ELSE split(Tail(bytes), cur \o <<Head(bytes)>>)

RECURSIVE digits_value(_, _)
digits_value(ds, acc) ==
    IF ds = <<>> THEN acc ELSE digits_value(Tail(ds), 10 * acc + (Head(ds) - 48))

\* int(text): an optional sign and decimal digits
int_ok(text) ==
    LET ds == IF text # <<>> /\ Head(text) \in {43, 45} THEN Tail(text) ELSE text
    IN ds # <<>> /\ \A i \in 1 .. Len(ds) : ds[i] \in Digits
int(text) ==
    IF Head(text) = 45 THEN 0 - digits_value(Tail(text), 0)
    ELSE IF Head(text) = 43 THEN digits_value(Tail(text), 0)
    ELSE digits_value(text, 0)

\* lines 148-151: decode, split, objtype, length
parse_header(header) ==
    LET parts == split(header, <<>>)
    IN IF \E i \in 1 .. Len(header) : header[i] >= 128
       THEN [err |-> "UnicodeDecodeError", type |-> "?", length |-> 0]
       ELSE IF Len(parts) < 2
       THEN [err |-> "IndexError", type |-> "?", length |-> 0]
       ELSE IF ~int_ok(Take(parts[2], Len(parts[2]) - 1))
       THEN [err |-> "ValueError", type |-> "?", length |-> 0]
       ELSE [err |-> "", type |-> Decode(parts[1]),
             length |-> int(Take(parts[2], Len(parts[2]) - 1))]

\* chunk.find(b'\x00'): index of the first NUL, 0 when there is none
find_nul(chunk) ==
    IF \E i \in 1 .. Len(chunk) : chunk[i] = NUL
    THEN CHOOSE i \in 1 .. Len(chunk) : chunk[i] = NUL /\ \A j \in 1 .. i - 1 : chunk[j] # NUL
    ELSE 0


\* ------------------------------------------------------------------ state
VARIABLES
    files,               \* <repo>/objects: digest -> bytes of the file at its sharded path
    dirs,                \* shard directories that exist
    total_write_length,  \* the module-level byte counter
    pc,                  \* where each thread is in its call
    loc,                 \* the locals of each thread's call
    nops,                \* calls started so far
    completed,           \* history: the write_object calls that returned
    failed               \* history: the write_object calls that raised OSError

vars == <<files, dirs, total_write_length, pc, loc, nops, completed, failed>>

NoSha == [shard |-> 0 - 1, rest |-> <<>>]
NoStream == Stream(<<>>, 0)

Locals ==
    [op |-> "none", objtype |-> "", stream |-> NoStream, close |-> FALSE,
     passed |-> FALSE, stream_open |-> FALSE, fout_open |-> FALSE, f_open |-> FALSE,
     source |-> <<>>, left |-> FALSE, length |-> 0, header |-> NoStream, sha |-> NoSha,
     tmp |-> 0, fout |-> 0, z |-> compressobj, payload |-> <<>>, second |-> FALSE,
     after |-> FALSE,
     f |-> 0, d |-> decompressobj, header_chunks |-> <<>>, obj |-> <<>>, data |-> <<>>,
     rootdir |-> <<>>, paths |-> <<>>, wrote |-> 0,
     ret |-> <<>>, err |-> ""]

Init ==
    /\ files = [h \in {} |-> <<>>]
    /\ dirs = {}
    /\ total_write_length = 0
    /\ pc = [p \in Procs |-> "idle"]
    /\ loc = [p \in Procs |-> Locals]
    /\ nops = 0
    /\ completed = {}
    /\ failed = {}

\* ------------------------------------------------------------------ inputs
Payloads == {<<>>, <<PayloadByte>>}

\* a payload source: a stream at any position, or the path of a file
DataInputs ==
    {[isstream |-> TRUE, bytes |-> b, pos |-> i, path |-> ""] :
        b \in Payloads, i \in 0 .. 1} \cup
    {[isstream |-> FALSE, bytes |-> <<>>, pos |-> 0, path |-> n] : n \in DOMAIN UserFiles}

TypeInputs == OBJECT_TYPES \cup {"tag"}

\* ------------------------------------------------------------------ write_object
\* the handles of a call once its frame unwinds, by return or by exception:
\* lines 94-96 (finally: stream.close() only if open_stream opened it),
\* line 125 (the with block closes fout), lines 157-159 (finally: f.close())
unwind_leaky(l) == l
unwind(l) ==
    [l EXCEPT !.stream_open = IF l.close THEN FALSE ELSE @,
              !.fout_open = FALSE,
              !.f_open = FALSE]

\* a call ends: its result is kept for the caller, its other locals die with the frame
Exit(p, ret, err, left) ==
    /\ pc' = [pc EXCEPT ![p] = "done"]
    /\ loc' = [loc EXCEPT ![p] = [Locals EXCEPT
                  !.passed = loc[p].passed, !.close = loc[p].close,
                  !.stream_open = unwind(loc[p]).stream_open,
                  !.fout_open = unwind(loc[p]).fout_open,
                  !.f_open = unwind(loc[p]).f_open,
                  !.source = loc[p].source, !.left = left,
                  !.op = loc[p].op, !.objtype = loc[p].objtype, !.sha = loc[p].sha,
                  !.length = loc[p].length, !.payload = loc[p].payload,
                  !.second = loc[p].second, !.after = loc[p].after, !.rootdir = loc[p].rootdir,
                  !.paths = loc[p].paths, !.wrote = loc[p].wrote,
                  !.ret = ret, !.err = err]]

Finish(p, ret, err) == Exit(p, ret, err, FALSE)

\* lines 105-112: assert, open_stream, stream_length, header, hash, path
write_object_begin(p, objtype, data) ==
    /\ pc[p] = "idle"
    /\ nops < MaxOps
    /\ data.isstream => data.pos <= Len(data.bytes)
    /\ nops' = nops + 1
    /\ IF objtype \notin OBJECT_TYPES
       THEN /\ pc' = [pc EXCEPT ![p] = "done"]
            /\ loc' = [loc EXCEPT ![p] = [Locals EXCEPT !.op = "write_object",
                            !.objtype = objtype, !.passed = data.isstream,
                            !.stream_open = data.isstream,
                            !.err = "AssertionError"]]
       ELSE LET o == open_stream(data)
                length == stream_length(o.stream)
                header == Stream(object_header(objtype, length), 0)
                sha == compute_sha1_hash(header, o.stream)
            IN /\ pc' = [pc EXCEPT ![p] = "exists"]
               /\ loc' = [loc EXCEPT ![p] = [Locals EXCEPT
                            !.op = "write_object", !.objtype = objtype,
                            !.stream = AtEnd(o.stream), !.close = o.close,
                            !.passed = data.isstream, !.stream_open = TRUE,
                            !.source = o.stream.bytes, !.length = length,
                            !.header = AtEnd(header), !.sha = sha,
                            !.payload = Rest(o.stream),
                            !.second = \E c \in completed :
                                c.objtype = objtype /\ c.payload = Rest(o.stream)]]
    /\ UNCHANGED <<files, dirs, total_write_length, completed, failed>>

\* lines 114-116: the object is already there, nothing to write
write_object_exists(p) ==
    /\ pc[p] = "exists"
    /\ IF path_exists(files, loc[p].sha)
       THEN /\ Finish(p, <<loc[p].sha, loc[p].length>>, "")
            /\ completed' = completed \cup
                 {[objtype |-> loc[p].objtype, payload |-> loc[p].payload, sha |-> loc[p].sha]}
       ELSE /\ pc' = [pc EXCEPT ![p] = "count"]
            /\ UNCHANGED <<loc, completed>>
    /\ UNCHANGED <<files, dirs, total_write_length, nops, failed>>

\* lines 118-119: total_write_length += length reads the global ...
write_object_count_load(p) ==
    /\ pc[p] = "count"
    /\ loc' = [loc EXCEPT ![p].tmp = total_write_length]
    /\ pc' = [pc EXCEPT ![p] = "store"]
    /\ UNCHANGED <<files, dirs, total_write_length, nops, completed, failed>>

\* ... and stores the sum; line 121 then makes the shard directory
write_object_count_store(p) ==
    /\ pc[p] = "store"
    /\ total_write_length' = loc[p].tmp + loc[p].length
    /\ dirs' = dirs \cup {loc[p].sha.shard}
    /\ pc' = [pc EXCEPT ![p] = "open"]
    /\ UNCHANGED <<files, loc, nops, completed, failed>>

\* lines 123-125: both streams rewound to 0, the final path opened 'wb'
write_object_open(p) ==
    /\ pc[p] = "open"
    /\ loc[p].sha.shard \in dirs
    /\ files' = SetFile(files, loc[p].sha, <<>>)
    /\ loc' = [loc EXCEPT ![p].header.pos = 0, ![p].stream.pos = 0,
                          ![p].fout = 0, ![p].fout_open = TRUE, ![p].z = compressobj]
    /\ pc' = [pc EXCEPT ![p] = "compress"]
    /\ UNCHANGED <<dirs, total_write_length, nops, completed, failed>>

\* lines 31-38: one chunk of header, then of stream, compressed and written.
\* Each fout.write is taken to reach the file at once: the granularity at which
\* a payload larger than the writer's buffer becomes visible to other threads.
write_compressed(p) ==
    /\ pc[p] = "compress"
    /\ Rest(loc[p].header) # <<>> \/ Rest(loc[p].stream) # <<>>
    /\ LET fromheader == Rest(loc[p].header) # <<>>
           src == IF fromheader THEN loc[p].header ELSE loc[p].stream
           chunk == ReadChunk(src, block_size)
           r == zcompress(loc[p].z, chunk)
       IN /\ files' = SetFile(files, loc[p].sha,
                              WriteAt(files[loc[p].sha], loc[p].fout, r.out))
          /\ loc' = [loc EXCEPT ![p].z = r.z,
                                ![p].fout = loc[p].fout + Len(r.out),
                                ![p].header = IF fromheader THEN Advance(src, block_size) ELSE @,
                                ![p].stream = IF fromheader THEN @ ELSE Advance(src, block_size)]
    /\ UNCHANGED <<dirs, total_write_length, pc, nops, completed, failed>>

\* lines 40-43 and 128: flush, close, return sha
write_compressed_flush(p) ==
    /\ pc[p] = "compress"
    /\ Rest(loc[p].header) = <<>> /\ Rest(loc[p].stream) = <<>>
    /\ files' = SetFile(files, loc[p].sha,
                        WriteAt(files[loc[p].sha], loc[p].fout, zflush(loc[p].z)))
    /\ Finish(p, <<loc[p].sha, loc[p].length>>, "")
    /\ completed' = completed \cup
         {[objtype |-> loc[p].objtype, payload |-> loc[p].payload, sha |-> loc[p].sha]}
    /\ UNCHANGED <<dirs, total_write_length, nops, failed>>

\* open or a write raises OSError (or the thread is abandoned there):
\* the with blocks close what is open and the exception leaves write_object
write_object_fail(p) ==
    /\ pc[p] \in {"open", "compress"}
    /\ Finish(p, <<>>, "OSError")
    /\ failed' = failed \cup
         {[objtype |-> loc[p].objtype, payload |-> loc[p].payload, sha |-> loc[p].sha]}
    /\ UNCHANGED <<files, dirs, total_write_length, nops, completed>>

write_object(p) ==
    \/ \E objtype \in TypeInputs, data \in DataInputs : write_object_begin(p, objtype, data)
    \/ write_object_exists(p)
    \/ write_object_count_load(p)
    \/ write_object_count_store(p)
    \/ write_object_open(p)
    \/ write_compressed(p)
    \/ write_compressed_flush(p)
    \/ write_object_fail(p)


\* ------------------------------------------------------------------ read_object
\* digests a caller can hold: of stored files, of returned writes, of writes under way
KnownShas ==
    DOMAIN files \cup {c.sha : c \in completed} \cup
    {loc[q].sha : q \in {r \in Procs : loc[r].op = "write_object" /\ loc[r].sha # NoSha}}

\* lines 132-137: open the sharded path
read_object_open(p, sha) ==
    /\ pc[p] = "idle"
    /\ nops < MaxOps
    /\ nops' = nops + 1
    /\ IF path_exists(files, sha)
       THEN /\ pc' = [pc EXCEPT ![p] = "header"]
            /\ loc' = [loc EXCEPT ![p] = [Locals EXCEPT !.op = "read_object", !.sha = sha,
                            !.f_open = TRUE, !.after = \E c \in completed : c.sha = sha]]
       ELSE /\ pc' = [pc EXCEPT ![p] = "done"]
            /\ loc' = [loc EXCEPT ![p] = [Locals EXCEPT !.op = "read_object", !.sha = sha,
                                                       !.err = "FileNotFoundError"]]
    /\ UNCHANGED <<files, dirs, total_write_length, completed, failed>>

\* line 146: the bytes of the chunk past the NUL open the payload
remaining_keeps_nul(chunk, end_of_header) == Drop(chunk, end_of_header - 1)

remaining(chunk, end_of_header) == Drop(chunk, end_of_header)

\* lines 48-58 driven by lines 139-156 and by the caller's iteration of obj:
\* one fin.read of n symbols and what becomes of the decompressed chunk
read_chunk(p, n) ==
    /\ pc[p] \in {"header", "data"}
    /\ LET content == files[loc[p].sha]
           chunk == SubSeq(content, loc[p].f + 1, Min(loc[p].f + n, Len(content)))
           r == zdecompress(loc[p].d, chunk)
           end_of_header == find_nul(r.out)
           header == loc[p].header_chunks \o Take(r.out, end_of_header)
           parsed == parse_header(header)
       IN IF chunk = <<>>
          THEN \* the generator is exhausted: flush() holds nothing more
               IF pc[p] = "header"
               THEN Finish(p, <<>>, "RuntimeError")
               ELSE Finish(p, [type |-> loc[p].obj.type, length |-> loc[p].obj.length,
                               data |-> loc[p].data], "")
          ELSE IF r.d.phase = "error"
          THEN Finish(p, <<>>, "zlib.error")
          ELSE IF r.out = <<>>
          THEN /\ loc' = [loc EXCEPT ![p].f = @ + Len(chunk), ![p].d = r.d]
               /\ UNCHANGED pc
          ELSE IF pc[p] = "data"
          THEN /\ loc' = [loc EXCEPT ![p].f = @ + Len(chunk), ![p].d = r.d,
                                     ![p].data = @ \o r.out]
               /\ UNCHANGED pc
          ELSE IF end_of_header = 0
          THEN /\ loc' = [loc EXCEPT ![p].f = @ + Len(chunk), ![p].d = r.d,
                                     ![p].header_chunks = @ \o r.out]
               /\ UNCHANGED pc
          ELSE IF parsed.err # ""
          THEN Finish(p, <<>>, parsed.err)
          ELSE /\ loc' = [loc EXCEPT ![p].f = @ + Len(chunk), ![p].d = r.d,
                                     ![p].header_chunks = header,
                                     ![p].obj = [type |-> parsed.type, length |-> parsed.length],
                                     ![p].data = remaining(r.out, end_of_header)]
               /\ pc' = [pc EXCEPT ![p] = "data"]
    /\ UNCHANGED <<files, dirs, total_write_length, nops, completed, failed>>

\* fin.read(block_size)
read_compressed(p) == read_chunk(p, block_size)

\* lines 153-159: the caller's with block ends before obj.data is exhausted,
\* by leaving it or by raising in it; the generator is resumed or thrown into
\* at the yield and its finally clause runs
read_object_leave(p, raised) ==
    /\ pc[p] = "data"
    /\ Exit(p, [type |-> loc[p].obj.type, length |-> loc[p].obj.length,
                data |-> loc[p].data],
            IF raised THEN "CallerError" ELSE "", TRUE)
    /\ UNCHANGED <<files, dirs, total_write_length, nops, completed, failed>>

read_object(p) ==
    \/ \E sha \in KnownShas : read_object_open(p, sha)
    \/ read_compressed(p)
    \/ \E raised \in BOOLEAN : read_object_leave(p, raised)

\* ------------------------------------------------------------------ write_tree
\* a path is its '/'-separated segments; an absolute path starts with the empty one
RootInputs == {<<"", "a", "b">>}
PathsInputs == {<<>>, <<<<"x">>>>, <<<<"x">>, <<"y">>>>, <<<<"", "a", "b", "..", "c">>>>}

\* line 175 evaluates the name root, which nothing defines: NameError, and the
\* rest of the body (lines 176-200) never runs
write_tree(p) ==
    /\ pc[p] = "idle"
    /\ nops < MaxOps
    /\ nops' = nops + 1
    /\ \E rootdir \in RootInputs, paths \in PathsInputs :
          loc' = [loc EXCEPT ![p] = [Locals EXCEPT !.op = "write_tree",
                        !.rootdir = rootdir, !.paths = paths,
                        !.wrote = 0, !.err = "NameError"]]
    /\ pc' = [pc EXCEPT ![p] = "done"]
    /\ UNCHANGED <<files, dirs, total_write_length, completed, failed>>

\* ------------------------------------------------------------------ restore_tree
\* lines 216-217: the body is pass; nothing is read or written, None is returned
restore_tree(p) ==
    /\ pc[p] = "idle"
    /\ nops < MaxOps
    /\ nops' = nops + 1
    /\ \E sha \in KnownShas :
          loc' = [loc EXCEPT ![p] = [Locals EXCEPT !.op = "restore_tree", !.sha = sha,
                        !.ret = [none |-> TRUE, paths |-> <<>>]]]
    /\ pc' = [pc EXCEPT ![p] = "done"]
    /\ UNCHANGED <<files, dirs, total_write_length, completed, failed>>

\* ------------------------------------------------------------------ the caller
\* the caller takes the result and is free to call again
Return(p) ==
    /\ pc[p] = "done"
    /\ nops < MaxOps
    /\ pc' = [pc EXCEPT ![p] = "idle"]
    /\ loc' = [loc EXCEPT ![p] = Locals]
    /\ UNCHANGED <<files, dirs, total_write_length, nops, completed, failed>>

Next ==
    \E p \in Procs :
        write_object(p) \/ read_object(p) \/ write_tree(p) \/ restore_tree(p) \/ Return(p)

Spec == Init /\ [][Next]_vars

\* ------------------------------------------------------------------ reading a given store
\* read_object takes the repository as it finds it: objects this module wrote,
\* objects another writer of the same format left there, damaged files
ValidStored ==
    {object_header(k, Len(b)) \o b : k \in OBJECT_TYPES,
                         b \in {<<>>, <<PayloadByte>>, <<PayloadByte, NUL, PayloadByte>>}}
ForeignStored ==
    {Encode("tag") \o <<SP>> \o str(1) \o <<NUL, PayloadByte>>,
     Encode("blob") \o <<SP, 45>> \o str(1) \o <<NUL>>,
     Encode("blob") \o <<SP, PayloadByte, NUL>>,
     Encode("blob") \o <<NUL>>,
     Encode("blob") \o <<SP>> \o str(1)}

InitRead ==
    /\ \E bytes \in ValidStored \cup ForeignStored :
          /\ files = [h \in {sha1(bytes)} |-> Compressed(bytes)]
          /\ dirs = {sha1(bytes).shard}
    /\ total_write_length = 0
    /\ pc = [p \in Procs |-> "idle"]
    /\ loc = [p \in Procs |-> Locals]
    /\ nops = 0
    /\ completed = {}
    /\ failed = {}

\* zlib hands back decompressed data in pieces that need not line up with the
\* blocks read: every piece size up to block_size
read_compressed_any(p) == \E n \in 1 .. block_size : read_chunk(p, n)

NextRead ==
    \E p \in Procs :
        \/ \E sha \in KnownShas : read_object_open(p, sha)
        \/ read_compressed_any(p)
        \/ \E raised \in BOOLEAN : read_object_leave(p, raised)
        \/ Return(p)

SpecRead == InitRead /\ [][NextRead]_vars


\* ------------------------------------------------------------------ properties
Inflate(content) == zdecompress(decompressobj, content)
IsComplete(content) == Inflate(content).d.phase = "eof"
ObjectBytes(objtype, payload) == object_header(objtype, Len(payload)) \o payload
Quiet == \A p \in Procs : pc[p] \in {"idle", "done"}

\* C1: round trip.  A read_object opened on a digest that a write_object(K, P)
\* call had already returned, and iterated to its end, ends without error and
\* yields type K, length len(P) and payload chunks that join to exactly P.
C1_RoundTrip ==
    \A p \in Procs :
        (pc[p] = "done" /\ loc[p].op = "read_object" /\ loc[p].after /\ ~loc[p].left) =>
            \A c \in completed :
                c.sha = loc[p].sha =>
                    /\ loc[p].err = ""
                    /\ loc[p].ret.type = c.objtype
                    /\ loc[p].ret.length = Len(c.payload)
                    /\ loc[p].ret.data = c.payload

\* C2: idempotence.  A write_object call begun after a call with the same kind
\* and payload has returned takes no step that changes a stored file or the
\* byte counter, and it returns the hash the earlier call returned.
C2_Idempotent ==
    [][\A p \in Procs :
          (loc[p].op = "write_object" /\ loc[p].second /\ write_object(p)) =>
              /\ files' = files
              /\ total_write_length' = total_write_length
              /\ pc'[p] = "done" =>
                    /\ loc'[p].err = ""
                    /\ \A c \in completed :
                          (c.objtype = loc[p].objtype /\ c.payload = loc[p].payload) =>
                              loc'[p].ret[1] = c.sha]_vars

C2_Witness ==
    \E p \in Procs :
        /\ pc[p] = "done" /\ loc[p].op = "write_object" /\ loc[p].second
        /\ loc[p].err = "" /\ loc[p].length > 0
        /\ total_write_length = loc[p].length

\* C3: no partial file.  In every reachable state each file at a final sharded
\* path is a complete compressed object; a truncated file is never there.
C3_NoPartialFile == \A h \in DOMAIN files : IsComplete(files[h])

\* C4: store integrity.  Once every write_object call made so far has returned
\* (none raised, none is under way), each stored file inflates to a header
\* '<kind> <length>\0' followed by exactly <length> payload bytes, and the
\* SHA-1 of the inflated bytes is the digest the file is stored under.
C4_StoreIntegrity ==
    (Quiet /\ failed = {}) =>
        \A h \in DOMAIN files :
            LET r == Inflate(files[h])
                e == find_nul(r.out)
                parsed == parse_header(Take(r.out, e))
            IN /\ r.d.phase = "eof"
               /\ e > 0
               /\ parsed.err = ""
               /\ Len(r.out) - e = parsed.length
               /\ sha1(r.out) = h

\* C5: never mutated in place.  A write_object call does not open (and so
\* truncate) a final path at which a file already exists.
C5_NeverMutated ==
    [][\A p \in Procs :
          (write_object_open(p) /\ path_exists(files, loc[p].sha)) =>
              files'[loc[p].sha] = files[loc[p].sha]]_vars

\* C6: no silent truncation.  A read_object whose payload iteration ends
\* without an error has delivered at least the number of payload bytes its
\* header announces.
C6_NoSilentTruncation ==
    \A p \in Procs :
        (pc[p] = "done" /\ loc[p].op = "read_object" /\ loc[p].err = "" /\ ~loc[p].left) =>
            Len(loc[p].ret.data) >= loc[p].ret.length

\* C7: an interrupted write does not corrupt the store.  After a write_object
\* call has raised, no incomplete file is left at its final path; and a later
\* write_object of the same kind and payload that returns leaves the complete
\* object stored.
C7_InterruptedWriteSafe ==
    /\ \A p \in Procs :
          (pc[p] = "done" /\ loc[p].op = "write_object" /\ loc[p].err = "OSError"
             /\ \A q \in Procs \ {p} : pc[q] \in {"idle", "done"}) =>
              (path_exists(files, loc[p].sha) => IsComplete(files[loc[p].sha]))
    /\ \A p \in Procs :
          (Quiet /\ pc[p] = "done" /\ loc[p].op = "write_object" /\ loc[p].err = ""
             /\ \E c \in failed : c.sha = loc[p].sha) =>
              /\ path_exists(files, loc[p].sha)
              /\ Inflate(files[loc[p].sha]).d.phase = "eof"
              /\ Inflate(files[loc[p].sha]).out = ObjectBytes(loc[p].objtype, loc[p].payload)

\* what "resolved against root" means: os.path.join, then '..' segments resolved
join(rootdir, path) == IF path # <<>> /\ path[1] = "" THEN path ELSE rootdir \o path

RECURSIVE resolve(_, _)
resolve(done, segs) ==
    IF segs = <<>> THEN done
    ELSE IF Head(segs) = ".."
         THEN resolve(IF Len(done) > 1 THEN Take(done, Len(done) - 1) ELSE done, Tail(segs))
         ELSE resolve(done \o <<Head(segs)>>, Tail(segs))

StaysWithin(rootdir, path) ==
    LET full == resolve(<<>>, join(rootdir, path))
    IN Len(full) > Len(rootdir) /\ Take(full, Len(rootdir)) = rootdir

\* C8: write_tree result.  Every write_tree call over existing files, the empty
\* sequence included, ends without error and returns the digest of a tree
\* object that is in the store.
C8_WriteTreeResult ==
    \A p \in Procs :
        (pc[p] = "done" /\ loc[p].op = "write_tree"
           /\ \A i \in 1 .. Len(loc[p].paths) : StaysWithin(loc[p].rootdir, loc[p].paths[i])) =>
            /\ loc[p].err = ""
            /\ path_exists(files, loc[p].ret)
            /\ Inflate(files[loc[p].ret]).d.phase = "eof"
            /\ parse_header(Take(Inflate(files[loc[p].ret]).out,
                                 find_nul(Inflate(files[loc[p].ret]).out))).type = "tree"

\* C9: path safety.  A write_tree call given a path that does not stay within
\* root is rejected by the within-root check (the assert of line 183), and no
\* object has been written by then.
C9_PathSafety ==
    \A p \in Procs :
        (pc[p] = "done" /\ loc[p].op = "write_tree"
           /\ \E i \in 1 .. Len(loc[p].paths) : ~StaysWithin(loc[p].rootdir, loc[p].paths[i])) =>
            /\ loc[p].err = "AssertionError"
            /\ loc[p].wrote = 0

\* C10: the byte counter is per snapshot.  When a write_tree call ends (nothing
\* else under way, nothing having failed), the counter equals the payload
\* bytes that call itself newly wrote.
C10_CounterPerSnapshot ==
    \A p \in Procs :
        (Quiet /\ failed = {} /\ pc[p] = "done" /\ loc[p].op = "write_tree") =>
            total_write_length = loc[p].wrote

\* payload length announced by the header inside a digest's bytes
DeclaredLength(h) == parse_header(Take(h.rest, find_nul(h.rest))).length

RECURSIVE SumLengths(_)
SumLengths(hs) ==
    IF hs = {} THEN 0
    ELSE LET h == CHOOSE x \in hs : TRUE IN DeclaredLength(h) + SumLengths(hs \ {h})

\* C11: the byte counter under interleaving.  Once all calls have returned
\* (none raised), the counter holds each stored object's payload length exactly
\* once: no increment is lost and no object is counted twice.
C11_CounterExact ==
    (Quiet /\ failed = {}) => total_write_length = SumLengths(DOMAIN files)

\* C13: snapshot round trip.  restore_tree on the digest of a stored tree
\* object returns the list of the relative paths of its entries (for the tree
\* of an empty snapshot: the empty list), having recreated each entry's file.
C13_SnapshotRoundTrip ==
    \A p \in Procs :
        (pc[p] = "done" /\ loc[p].op = "restore_tree"
           /\ path_exists(files, loc[p].sha)
           /\ Inflate(files[loc[p].sha]).d.phase = "eof"
           /\ Inflate(files[loc[p].sha]).out = ObjectBytes("tree", <<>>)) =>
            /\ ~loc[p].ret.none
            /\ loc[p].ret.paths = <<>>

RecognizedKinds == {"blob", "tree", "commit"}

\* what the file a reader has open holds, inflated as a whole
StoredOut(p) == Inflate(files[loc[p].sha]).out
StoredHeader(p) == Take(StoredOut(p), find_nul(StoredOut(p)))
HeaderIsValid(p) ==
    /\ find_nul(StoredOut(p)) > 0
    /\ parse_header(StoredHeader(p)).err = ""
    /\ parse_header(StoredHeader(p)).type \in RecognizedKinds
    /\ parse_header(StoredHeader(p)).length >= 0

\* C14: header validation.  read_object hands out no object (it never reaches
\* the yield) and ends with an error whenever the stored stream has no NUL, a
\* length field that is no non-negative integer, or an unrecognized kind.
C14_HeaderValidated ==
    \A p \in Procs :
        (loc[p].op = "read_object" /\ path_exists(files, loc[p].sha) /\ ~HeaderIsValid(p)) =>
            /\ pc[p] # "data"
            /\ pc[p] = "done" => loc[p].err # ""

\* C17: header parsing does not depend on chunking.  For a valid stored object,
\* however the stream is cut into chunks, read_object yields the kind and
\* length of the header and a payload that, iterated to its end, joins to
\* exactly the bytes after the first NUL.
C17_ChunkingIndependent ==
    \A p \in Procs :
        (loc[p].op = "read_object" /\ path_exists(files, loc[p].sha)
           /\ IsComplete(files[loc[p].sha]) /\ HeaderIsValid(p)) =>
            LET parsed == parse_header(StoredHeader(p))
                payload == Drop(StoredOut(p), find_nul(StoredOut(p)))
            IN /\ pc[p] = "data" =>
                    /\ loc[p].obj = [type |-> parsed.type, length |-> parsed.length]
                    /\ loc[p].data = Take(payload, Len(loc[p].data))
               /\ (pc[p] = "done" /\ ~loc[p].left) =>
                    /\ loc[p].err = ""
                    /\ loc[p].ret = [type |-> parsed.type, length |-> parsed.length,
                                     data |-> payload]

C17_Witness ==
    \E p \in Procs :
        /\ pc[p] = "done" /\ loc[p].op = "read_object" /\ loc[p].err = ""
        /\ ~loc[p].left
        /\ loc[p].ret.type = "commit"
        /\ loc[p].ret.data = <<PayloadByte, NUL, PayloadByte>>

\* the thread p takes the step
Steps(p) == pc'[p] # pc[p] \/ loc'[p] # loc[p]

\* C15: an unrecognized kind fails before any I/O.  Every step of a
\* write_object call whose kind is outside {blob, tree, commit} ends the call
\* with an error at once: the payload source is not opened, read or
\* repositioned, no directory or file is created or changed, and the
\* write-byte counter keeps its value.
C15_InvalidKindNoIO ==
    [][\A p \in Procs :
          (Steps(p) /\ loc'[p].op = "write_object"
             /\ loc'[p].objtype \notin RecognizedKinds) =>
              /\ pc[p] = "idle" /\ pc'[p] = "done"
              /\ loc'[p].err = "AssertionError"
              /\ loc'[p].stream = NoStream
              /\ loc'[p].stream_open = loc'[p].passed
              /\ ~loc'[p].close
              /\ files' = files
              /\ dirs' = dirs
              /\ total_write_length' = total_write_length]_vars

C15_Witness ==
    \E p \in Procs :
        /\ pc[p] = "done" /\ loc[p].op = "write_object"
        /\ loc[p].objtype = "tag" /\ loc[p].err = "AssertionError"
        /\ ~loc[p].passed

\* C16: no file descriptor leak.  Once a read_object context has exited, on
\* whatever path, its object file is closed; once write_object has ended, on
\* whatever path, the output file and a payload file it opened itself are
\* closed; and a stream passed in by the caller is open at every step of the
\* call and after it.
C16_NoDescriptorLeak ==
    \A p \in Procs :
        /\ (pc[p] = "done" /\ loc[p].op = "read_object") => ~loc[p].f_open
        /\ (pc[p] = "done" /\ loc[p].op = "write_object") =>
              /\ ~loc[p].fout_open
              /\ ~loc[p].passed => ~loc[p].stream_open
        /\ (loc[p].op = "write_object" /\ loc[p].passed) => loc[p].stream_open

C16_Witness ==
    \E p, q \in Procs :
        /\ pc[p] = "done" /\ loc[p].op = "read_object"
        /\ loc[p].left /\ loc[p].err = "CallerError"
        /\ pc[q] = "done" /\ loc[q].op = "write_object"
        /\ ~loc[q].passed /\ loc[q].err = "OSError"

\* what one write_object call alone leaves at its path in an empty store
StoredAlone(p) ==
    Compressed(object_header(loc[p].objtype, loc[p].length) \o loc[p].source)

WroteAlone(p) ==
    /\ pc[p] = "done" /\ loc[p].op = "write_object"
    /\ loc[p].objtype \in RecognizedKinds

\* C18: writes of different objects are independent.  When two write_object
\* calls of objects with different hashes are the only calls made and no I/O
\* error struck, then however their steps interleaved both have returned
\* their own hash, both files are complete, and the store holds exactly what
\* the two calls run one after the other leave: each object at its own path.
C18_IndependentWrites ==
    \A p, q \in Procs :
        (p # q /\ nops = 2 /\ failed = {} /\ WroteAlone(p) /\ WroteAlone(q)
           /\ loc[p].sha # loc[q].sha) =>
            /\ loc[p].err = "" /\ loc[q].err = ""
            /\ loc[p].ret = <<loc[p].sha, loc[p].length>>
            /\ loc[q].ret = <<loc[q].sha, loc[q].length>>
            /\ DOMAIN files = {loc[p].sha, loc[q].sha}
            /\ files[loc[p].sha] = StoredAlone(p) /\ IsComplete(files[loc[p].sha])
            /\ files[loc[q].sha] = StoredAlone(q) /\ IsComplete(files[loc[q].sha])
            /\ dirs = {loc[p].sha.shard, loc[q].sha.shard}

C18_Witness ==
    \E p, q \in Procs :
        /\ p # q /\ nops = 2 /\ failed = {} /\ WroteAlone(p) /\ WroteAlone(q)
        /\ loc[p].sha # loc[q].sha
        /\ loc[p].sha.shard = loc[q].sha.shard
        /\ loc[p].err = "" /\ loc[q].err = ""

====
